---------------------------- MODULE Spec2Model ----------------------------
(***************************************************************************)
(* A model of helpers/ml_utils.py: the threshold metrics (metrics), the    *)
(* AUC aggregator (auc_overall), the two transformers (DropMissing,        *)
(* Winsorizer) and load_model.                                             *)
(*                                                                         *)
(* Numbers.  A rate (accuracy, precision, recall, tpr, fpr, an AUC) is an  *)
(* exact fraction <<num, den>>; the percentage p is a fraction too, so     *)
(* that the 98 cutoffs of numpy.linspace(1, 100, 99)[:-1], which are       *)
(* 1 + 99 i / 98, are held exactly.  Table cells of the Winsorizer are     *)
(* integers in hundredths (Scale), so that a quantile at a whole           *)
(* percentile of whole numbers is exact.                                   *)
(***************************************************************************)
EXTENDS Integers, Sequences, FiniteSets, TLC

VARIABLES
    pc,                 \* position in the function being executed
    err,                \* the exception raised ("" while none)
    \* ---- metrics / auc_overall
    a1, a2, p,          \* arguments: truth, prediction, percentage <<num, den>>
    num_ones,           \* metrics: line 57
    targeting_vector,   \* metrics: line 59
    a,                  \* metrics: the 2 x n matrix of lines 61-65, <<row0, row1>>
    cm,                 \* metrics: confusion_matrix(...).ravel(), line 67
    ret,                \* metrics: the returned 5-tuple
    gi,                 \* auc_overall: number of cutoffs of the grid already evaluated
    tprs, fprs,         \* auc_overall: the two lists of lines 90-103
    area,               \* auc_overall: the returned value, a fraction
    \* ---- DropMissing
    X,                  \* the table: column name -> sequence of cells
    threshold,          \* DropMissing.threshold
    missing_frac, cols_to_drop, cols_to_keep,
    X_out,              \* the table returned by transform
    \* ---- Winsorizer
    limits,             \* Winsorizer.limits
    columns_, threshold_dict_,
    X_t,                \* the table returned by Winsorizer.transform
    \* ---- load_model
    model, kind,        \* arguments (out_path is fixed)
    full_path_is,       \* what <out_path>/<kind>_models/<model>/model is: "file", "dir", "absent"
    model_is_file,      \* os.path.isfile(model)
    has_autogluon,      \* whether autogluon.tabular can be imported
    has_best,           \* whether the stored object has a best_estimator_ attribute
    dirs_made,          \* the directories make_dir was called on
    model_name, loaded, \* locals of load_model
    lm_ret              \* the pair load_model returns

metricsVars == <<a1, a2, p, num_ones, targeting_vector, a, cm, ret>>
aucVars     == <<gi, tprs, fprs, area>>
dropVars    == <<threshold, missing_frac, cols_to_drop, cols_to_keep, X_out>>
winsVars    == <<limits, columns_, threshold_dict_, X_t>>
loadVars    == <<model, kind, full_path_is, model_is_file, has_autogluon, has_best,
                 dirs_made, model_name, loaded, lm_ret>>
vars == <<pc, err, metricsVars, aucVars, X, dropVars, winsVars, loadVars>>

None == "None"
\* an argument left at its default None where numbers are expected
Unset == [set |-> FALSE, pct |-> 0]
NaN  == <<>>     \* a missing cell, or a mean or quantile of nothing
NotLoaded == [by |-> "", path |-> ""]

(***************************************************************************)
(* Bounds of the model.                                                    *)
(***************************************************************************)
MaxLen == 3          \* metrics: longest a1, a2
MaxVal == 2          \* metrics: values of a1, a2 are 1..MaxVal (ties happen)

\* The parts of the state a function does not touch.
MetricsIdle ==
    /\ a1 = <<>> /\ a2 = <<>> /\ p = <<1, 1>>
    /\ num_ones = None /\ targeting_vector = None /\ a = None /\ cm = None /\ ret = None
AucIdle  == gi = 0 /\ tprs = <<>> /\ fprs = <<>> /\ area = NaN
DropIdle ==
    /\ threshold = Unset /\ missing_frac = None /\ cols_to_drop = None
    /\ cols_to_keep = None /\ X_out = None
WinsIdle == limits = [kind |-> "none", lo |-> 0, hi |-> 0] /\ columns_ = None /\ threshold_dict_ = None /\ X_t = None
LoadIdle ==
    /\ model = <<>> /\ kind = None /\ full_path_is = None /\ model_is_file = FALSE
    /\ has_autogluon = FALSE /\ has_best = FALSE /\ dirs_made = {}
    /\ model_name = <<>> /\ loaded = NotLoaded /\ lm_ret = <<>>

(***************************************************************************)
(* Fractions.                                                              *)
(***************************************************************************)
FracLt(x, y) == x[1] * y[2] < y[1] * x[2]
FracLe(x, y) == x[1] * y[2] <= y[1] * x[2]
FracEq(x, y) == x[1] * y[2] = y[1] * x[2]

\* Python's int(): truncation toward zero of num/den (den > 0).
Trunc(num, den) == IF num >= 0 THEN num \div den ELSE -((-num) \div den)

(***************************************************************************)
(* metrics (lines 42-75).                                                  *)
(***************************************************************************)

\* line 54: the only values of p that metrics rejects
RejectedP(pp) == pp[1] = 0 \/ pp[1] = 100 * pp[2]

\* line 57: num_ones = int((p/100)*len(a1))
NumOnes(n, pp) == Trunc(pp[1] * n, pp[2] * 100)

\* line 59: np.concatenate([np.ones(num_ones), np.zeros(num_zeros)])
TargetingVector(ones, zeros) == [k \in 1..(ones + zeros) |-> IF k <= ones THEN 1 ELSE 0]

\* line 65: the vector written over the prediction row
PredTargetingOffByOne(ones, zeros) ==
    TargetingVector(IF zeros > 0 THEN ones + 1 ELSE ones, IF zeros > 0 THEN zeros - 1 ELSE zeros)
PredTargeting(ones, zeros) == TargetingVector(ones, zeros)

Distinct(row) == Cardinality({row[k] : k \in 1..Len(row)}) = Len(row)

\* ndarray.argsort() with its default kind, which is not stable: every
\* permutation that sorts the row is a possible result.  Rows without ties
\* have exactly one, computed from the ranks.
Argsorts(row) ==
    LET n == Len(row) IN
    IF Distinct(row)
    THEN {[k \in 1..n |-> CHOOSE i \in 1..n : rank[i] = k] :
             rank \in {[i \in 1..n |-> 1 + Cardinality({j \in 1..n : row[j] < row[i]})]}}
    ELSE {perm \in Permutations(1..n) : \A k \in 1..(n - 1) : row[perm[k]] <= row[perm[k + 1]]}

\* a[:, perm]
TakeColumns(m, perm) ==
    <<[k \in 1..Len(perm) |-> m[1][perm[k]]], [k \in 1..Len(perm) |-> m[2][perm[k]]]>>

RECURSIVE SortedSeq(_)
SortedSeq(S) ==
    IF S = {} THEN <<>>
    ELSE LET m == CHOOSE x \in S : \A y \in S : x <= y IN <<m>> \o SortedSeq(S \ {m})

\* sklearn.metrics.confusion_matrix(y_true, y_pred).ravel(): the labels are the
\* values that occur in y_true or y_pred, sorted; the matrix has one row and
\* one column per label, flattened row by row.
CountPairs(y_true, y_pred, labels) ==
    [idx \in 1..(Len(labels) * Len(labels)) |->
        Cardinality({k \in 1..Len(y_true) :
            /\ y_true[k] = labels[((idx - 1) \div Len(labels)) + 1]
            /\ y_pred[k] = labels[((idx - 1) % Len(labels)) + 1]})]
ConfusionRavel(y_true, y_pred) ==
    CHOOSE c \in {CountPairs(y_true, y_pred, labels) :
                    labels \in {SortedSeq({y_true[k] : k \in 1..Len(y_true)}
                                          \cup {y_pred[k] : k \in 1..Len(y_pred)})}} : TRUE

\* lines 69-75, from tn, fp, fn, tp = c[1], c[2], c[3], c[4]
Rates(c) ==
    LET tn == c[1]  fp == c[2]  fn == c[3]  tp == c[4] IN
    [accuracy  |-> <<tp + tn, tp + tn + fp + fn>>,
     precision |-> <<tp, tp + fp>>,
     recall    |-> <<tp, tp + fn>>,
     tpr       |-> <<tp, tp + fn>>,
     fpr       |-> <<fp, fp + tn>>]

E_PERCENT == "ValueError: Percentage targeting must be between 0 and 100 (exclusive)."
E_NEGDIM  == "ValueError: negative dimensions are not allowed"
E_UNPACK  == "ValueError: not enough values to unpack (expected 4)"

\* The matrices metrics can hold after lines 61-65.
SortedMatrices(x1, x2, tv, ptv) ==
    UNION {
        LET b == [TakeColumns(<<x1, x2>>, s1) EXCEPT ![1] = tv] IN
        {[TakeColumns(b, s2) EXCEPT ![2] = ptv] : s2 \in Argsorts(b[2])}
      : s1 \in Argsorts(x1)}

\* metrics as a whole: the set of outcomes of metrics(x1, x2, pp), one per
\* way the two argsorts may break ties.
MetricsOutcomes(x1, x2, pp) ==
    LET n     == Len(x1)
        ones  == NumOnes(n, pp)
        zeros == n - ones
    IN  IF RejectedP(pp) THEN {[status |-> E_PERCENT]}
        ELSE IF ones < 0 \/ zeros < 0 THEN {[status |-> E_NEGDIM]}
        ELSE {LET c == ConfusionRavel(m[1], m[2]) IN
              IF Len(c) # 4 THEN [status |-> E_UNPACK]
              ELSE [status |-> "ok", rates |-> Rates(c)]
                : m \in SortedMatrices(x1, x2, TargetingVector(ones, zeros),
                                       PredTargeting(ones, zeros))}

\* ---- metrics, statement by statement

\* lines 54-55
Validate ==
    /\ pc = "m_validate"
    /\ IF RejectedP(p)
       THEN pc' = "raised" /\ err' = E_PERCENT
       ELSE pc' = "m_target" /\ err' = err
    /\ UNCHANGED <<metricsVars, aucVars, X, dropVars, winsVars, loadVars>>

\* lines 57-59
Target ==
    /\ pc = "m_target"
    /\ num_ones' = NumOnes(Len(a1), p)
    /\ IF num_ones' < 0 \/ Len(a1) - num_ones' < 0
       THEN /\ pc' = "raised" /\ err' = E_NEGDIM
            /\ targeting_vector' = targeting_vector
       ELSE /\ pc' = "m_sort_truth" /\ err' = err
            /\ targeting_vector' = TargetingVector(num_ones', Len(a1) - num_ones')
    /\ UNCHANGED <<a1, a2, p, a, cm, ret, aucVars, X, dropVars, winsVars, loadVars>>

\* lines 61-63
SortByTruth ==
    /\ pc = "m_sort_truth"
    /\ \E s \in Argsorts(a1) :
          a' = [TakeColumns(<<a1, a2>>, s) EXCEPT ![1] = targeting_vector]
    /\ pc' = "m_sort_pred"
    /\ UNCHANGED <<err, a1, a2, p, num_ones, targeting_vector, cm, ret,
                   aucVars, X, dropVars, winsVars, loadVars>>

\* lines 64-65
SortByPred ==
    /\ pc = "m_sort_pred"
    /\ \E s \in Argsorts(a[2]) :
          a' = [TakeColumns(a, s) EXCEPT
                   ![2] = PredTargeting(num_ones, Len(a1) - num_ones)]
    /\ pc' = "m_confusion"
    /\ UNCHANGED <<err, a1, a2, p, num_ones, targeting_vector, cm, ret,
                   aucVars, X, dropVars, winsVars, loadVars>>

\* line 67
Confusion ==
    /\ pc = "m_confusion"
    /\ cm' = ConfusionRavel(a[1], a[2])
    /\ IF Len(cm') # 4
       THEN pc' = "raised" /\ err' = E_UNPACK
       ELSE pc' = "m_rates" /\ err' = err
    /\ UNCHANGED <<a1, a2, p, num_ones, targeting_vector, a, ret,
                   aucVars, X, dropVars, winsVars, loadVars>>

\* lines 69-75
Return ==
    /\ pc = "m_rates"
    /\ ret' = Rates(cm)
    /\ pc' = "returned"
    /\ UNCHANGED <<err, a1, a2, p, num_ones, targeting_vector, a, cm,
                   aucVars, X, dropVars, winsVars, loadVars>>

\* The percentages tried: below, at, inside and above the open interval (0, 100).
Percentages == {<<-50, 1>>, <<-5, 1>>, <<0, 1>>, <<1, 1>>, <<25, 1>>, <<50, 1>>,
                <<75, 1>>, <<99, 1>>, <<100, 1>>, <<150, 1>>}

Vectors(n) == [1..n -> 1..MaxVal]

InitMetrics ==
    /\ pc = "m_validate" /\ err = ""
    /\ \E n \in 1..MaxLen : a1 \in Vectors(n) /\ a2 \in Vectors(n)
    /\ p \in Percentages
    /\ num_ones = None /\ targeting_vector = None /\ a = None /\ cm = None /\ ret = None
    /\ AucIdle /\ X = None /\ DropIdle /\ WinsIdle /\ LoadIdle

NextMetrics == Validate \/ Target \/ SortByTruth \/ SortByPred \/ Confusion \/ Return

SpecMetrics == InitMetrics /\ [][NextMetrics]_vars


(***************************************************************************)
(* auc_overall (lines 78-105).                                             *)
(***************************************************************************)
GridPoints == 99      \* np.linspace(1, 100, 99)
GridSize == GridPoints - 1                           \* ...[:-1]

\* line 88: the i-th cutoff (i = 0 .. 97), 1 + i * (100 - 1)/(99 - 1)
GridP(i) == <<(GridPoints - 1) + (100 - 1) * i, GridPoints - 1>>

\* The arithmetic below binds each operand once (u \in {x}) before using it,
\* so that an operand that is itself a long sum is evaluated a single time.
Abs(x) == IF x < 0 THEN -x ELSE x
RECURSIVE Gcd(_, _)
Gcd(x, y) ==
    IF y = 0 THEN x
    ELSE CHOOSE g \in {Gcd(v, u % v) : u \in {x}, v \in {y}} : TRUE
ReduceValue(u) ==
    LET g == Gcd(Abs(u[1]), Abs(u[2])) IN
    IF g = 0 THEN u ELSE <<u[1] \div g, u[2] \div g>>
Reduce(x) == CHOOSE r \in {ReduceValue(u) : u \in {x}} : TRUE
FracAdd(x, y) ==
    CHOOSE r \in {Reduce(<<u[1] * v[2] + v[1] * u[2], u[2] * v[2]>>) :
                    u \in {x}, v \in {y}} : TRUE
FracSub(x, y) ==
    CHOOSE r \in {Reduce(<<u[1] * v[2] - v[1] * u[2], u[2] * v[2]>>) :
                    u \in {x}, v \in {y}} : TRUE
\* cross-reduced before multiplying, to keep the products small
FracMul(x, y) ==
    CHOOSE r \in {Reduce(<<s[1] * t[1], s[2] * t[2]>>) :
                    s \in {Reduce(<<u[1], v[2]>>) : u \in {x}, v \in {y}},
                    t \in {Reduce(<<v[1], u[2]>>) : u \in {x}, v \in {y}}} : TRUE
Zero == <<0, 1>>
One  == <<1, 1>>

\* helpers.utils.strictly_increasing (imported at line 29)
strictly_increasing(L) == \A i \in 1..(Len(L) - 1) : FracLt(L[i], L[i + 1])

\* lines 98-101: the positions the pass removes (positions count from 1 here,
\* so the code's j in range(1, len(fprs)) is 2..Len)
ToRemoveStrictOnly(L) == {j \in 2..Len(L) : FracLt(L[j], L[j - 1])}
ToRemove(L) == {j \in 2..Len(L) : FracLe(L[j], L[j - 1])}

\* lines 102-103: [L[i] for i in range(len(L)) if i not in to_remove]
Without(L, R) ==
    CHOOSE out \in
        {[k \in 1..Cardinality(keep) |->
             L[CHOOSE i \in keep : Cardinality({j \in keep : j < i}) = k - 1]] :
         keep \in {(1..Len(L)) \ R}} : TRUE

\* sklearn.metrics.auc(x, y) for increasing x: the trapezoidal rule, the sum
\* over the segments lo .. hi - 1 of (x[i+1] - x[i]) * (y[i] + y[i+1]) / 2
RECURSIVE TrapezoidSum(_, _, _, _)
TrapezoidSum(xs, ys, lo, hi) ==
    IF lo >= hi THEN Zero
    ELSE IF lo + 1 = hi
    THEN FracMul(FracMul(FracSub(xs[lo + 1], xs[lo]), FracAdd(ys[lo], ys[lo + 1])), <<1, 2>>)
    ELSE LET mid == (lo + hi) \div 2 IN
         FracAdd(TrapezoidSum(xs, ys, lo, mid), TrapezoidSum(xs, ys, mid, hi))
E_AUC == "ValueError: At least 2 points are needed to compute area under curve"
Auc(xs, ys) == IF Len(xs) < 2 THEN E_AUC ELSE TrapezoidSum(xs, ys, 1, Len(xs))

\* line 89, one cutoff of the list comprehension (and line 90 for its result)
SweepStep ==
    /\ pc = "auc_sweep"
    /\ gi < GridSize
    /\ \E o \in MetricsOutcomes(a1, a2, GridP(gi)) :
          IF o.status = "ok"
          THEN /\ tprs' = Append(tprs, o.rates.tpr)
               /\ fprs' = Append(fprs, o.rates.fpr)
               /\ gi' = gi + 1
               /\ pc' = IF gi' = GridSize THEN "auc_force" ELSE "auc_sweep"
               /\ err' = err
          ELSE /\ pc' = "raised" /\ err' = o.status
               /\ UNCHANGED <<tprs, fprs, gi>>
    /\ UNCHANGED <<metricsVars, area, X, dropVars, winsVars, loadVars>>

\* lines 92-95
ForceEndpoints ==
    /\ pc = "auc_force"
    /\ fprs' = Append([fprs EXCEPT ![1] = Zero], One)
    /\ tprs' = Append([tprs EXCEPT ![1] = Zero], One)
    /\ pc' = "auc_loop"
    /\ UNCHANGED <<err, metricsVars, gi, area, X, dropVars, winsVars, loadVars>>

\* lines 97-103: one pass of the while loop
RepairPass ==
    /\ pc = "auc_loop"
    /\ ~strictly_increasing(fprs)
    /\ LET to_remove == ToRemove(fprs) IN
          /\ fprs' = Without(fprs, to_remove)
          /\ tprs' = Without(tprs, to_remove)
    /\ UNCHANGED <<pc, err, metricsVars, gi, area, X, dropVars, winsVars, loadVars>>

\* line 105
Integrate ==
    /\ pc = "auc_loop"
    /\ strictly_increasing(fprs)
    /\ IF Len(fprs) < 2
       THEN pc' = "raised" /\ err' = E_AUC /\ area' = area
       ELSE pc' = "auc_done" /\ err' = err /\ area' = Auc(fprs, tprs)
    /\ UNCHANGED <<metricsVars, gi, tprs, fprs, X, dropVars, winsVars, loadVars>>

\* The smallest number of observations for which the first cutoff (p = 1)
\* labels at least one observation positive.
MinObs == 100
ExtraObs == 1         \* auc_overall: n ranges over MinObs - 1 .. MinObs + ExtraObs

Ascending(n)  == [k \in 1..n |-> k]
Descending(n) == [k \in 1..n |-> n + 1 - k]
\* predictions for a truth vector t of distinct values 1..n
Perfect(t)  == t
Inverted(t) == [k \in 1..Len(t) |-> Len(t) + 1 - t[k]]
\* the ten lowest values predicted in reverse order, the rest exactly
LowInverted(t) == [k \in 1..Len(t) |-> IF t[k] <= 10 THEN 11 - t[k] ELSE t[k]]

InitAuc ==
    /\ pc = "auc_sweep" /\ err = ""
    /\ \E n \in (MinObs - 1)..(MinObs + ExtraObs) :
          /\ a1 \in {Ascending(n), Descending(n)}
          /\ a2 \in {Perfect(a1), Inverted(a1), LowInverted(a1)}
    /\ p = <<1, 1>>
    /\ num_ones = None /\ targeting_vector = None /\ a = None /\ cm = None /\ ret = None
    /\ AucIdle /\ X = None /\ DropIdle /\ WinsIdle /\ LoadIdle

NextAuc == SweepStep \/ ForceEndpoints \/ RepairPass \/ Integrate

SpecAuc == InitAuc /\ [][NextAuc]_vars

(***************************************************************************)
(* The repair loop of auc_overall on arbitrary rate lists: the lists of    *)
(* line 90 are drawn from all lists of 1..MaxPts rates with denominator    *)
(* RateDen, and lines 92-105 run on them.                                  *)
(***************************************************************************)
MaxPts == 3
RateDen == 2
RateVals == {<<k, RateDen>> : k \in 0..RateDen}

InitRepair ==
    /\ pc = "auc_force" /\ err = ""
    /\ \E n \in 1..MaxPts :
          /\ fprs \in [1..n -> RateVals]
          /\ tprs \in [1..n -> RateVals]
          /\ gi = n
    /\ area = NaN
    /\ MetricsIdle /\ X = None /\ DropIdle /\ WinsIdle /\ LoadIdle

NextRepair == ForceEndpoints \/ RepairPass \/ Integrate

SpecRepair == InitRepair /\ [][NextRepair]_vars
\* auc_overall runs to completion once called: no statement waits on anything
SpecRepairFair == SpecRepair /\ WF_vars(NextRepair)

(***************************************************************************)
(* Properties of auc_overall.                                              *)
(***************************************************************************)

\* C1: auc_overall on a perfect predictor (a2 identical to a1, at least 100
\* observations, pairwise distinct values) returns 1.
C1_PerfectPredictorAucIsOne ==
    (pc = "auc_done" /\ a2 = a1 /\ Len(a1) >= MinObs /\ Distinct(a1)) =>
        (area[2] # 0 /\ area[1] = area[2])

\* C9: the sequence handed to the integration starts with the forced point
\* (0,0) and ends with the appended point (1,1).
C9_BothEndpointsSurvive ==
    pc = "auc_done" =>
        /\ FracEq(fprs[1], Zero) /\ FracEq(tprs[1], Zero)
        /\ FracEq(fprs[Len(fprs)], One) /\ FracEq(tprs[Len(tprs)], One)

\* C4: the repair loop terminates on every fpr list: every pass removes at least
\* one point, the list handed to the integration is strictly increasing
\* (L[i] < L[i+1] for all consecutive pairs), and the call finishes.
C4_RepairLoopTerminates ==
    /\ [][(pc = "auc_loop" /\ pc' = "auc_loop") =>
             (Len(fprs') < Len(fprs) /\ Len(tprs') = Len(fprs'))]_vars
    /\ [](pc = "auc_done" =>
             \A i \in 1..(Len(fprs) - 1) : fprs[i][1] * fprs[i + 1][2] < fprs[i + 1][1] * fprs[i][2])
    /\ <>(pc = "auc_done")

\* C4 witness: a call that needed the loop and came out of it with nothing but
\* two points left of four.
C4_Witness == pc = "auc_done" /\ gi = 3 /\ Len(fprs) = 2

(***************************************************************************)
(* Properties of metrics, checked under SpecMetrics.                       *)
(***************************************************************************)
InRange(pp) == 0 < pp[1] /\ pp[1] < 100 * pp[2]
IsOne(x) == x[2] # 0 /\ x[1] = x[2]
CountOnes(row) == Cardinality({k \in 1..Len(row) : row[k] = 1})
\* floor(p/100 * n)
FloorOnes(n, pp) == (pp[1] * n) \div (pp[2] * 100)

\* C2: for every p strictly between 0 and 100 metrics returns normally, and the
\* four confusion counts are non-negative and sum to len(a1).
C2_ReturnsCountsSumToLen ==
    InRange(p) =>
        /\ pc # "raised"
        /\ pc \in {"m_rates", "returned"} =>
              /\ \A k \in 1..4 : cm[k] >= 0
              /\ cm[1] + cm[2] + cm[3] + cm[4] = Len(a1)

\* C3: for a perfect predictor (a2 identical to a1, ties included) and every p
\* strictly between 0 and 100, metrics returns accuracy = precision = recall = 1.
C3_PerfectPredictorAllOnes ==
    (a1 = a2 /\ InRange(p)) =>
        /\ pc # "raised"
        /\ pc = "returned" =>
              IsOne(ret.accuracy) /\ IsOne(ret.precision) /\ IsOne(ret.recall)

\* C5: metrics raises its input-validation error exactly when p is not strictly
\* between 0 and 100, and raises it before anything is computed from a1 or a2.
C5_ValidationErrorIffOutOfRange ==
    pc # "m_validate" =>
        /\ (err = E_PERCENT) <=> ~InRange(p)
        /\ err = E_PERCENT => (pc = "raised" /\ num_ones = None /\ a = None)

\* C10: whenever metrics returns, the truth labels and the predicted labels each
\* hold exactly floor(p/100 * n) ones, so fp = fn, tp + fp = tp + fn =
\* floor(p/100 * n), and precision, recall and tpr are equal.
C10_EqualLabelCounts ==
    pc = "returned" =>
        LET k == FloorOnes(Len(a1), p) IN
        /\ CountOnes(a[1]) = k /\ CountOnes(a[2]) = k
        /\ cm[2] = cm[3]
        /\ cm[4] + cm[2] = k /\ cm[4] + cm[3] = k
        /\ ret.precision[2] # 0 /\ ret.recall[2] # 0
        /\ FracEq(ret.precision, ret.recall) /\ ret.recall = ret.tpr

\* C10 witness: a call that returned with a false positive and a true positive.
C10_Witness == pc = "returned" /\ cm[2] > 0 /\ cm[4] > 0


(***************************************************************************)
(* Tables.  A table maps each column name to [dtype, cells]; a cell is     *)
(* <<v>>, with v a number in hundredths (Scale) or, in an object column, a *)
(* string, or it is NaN (missing).                                         *)
(***************************************************************************)
Scale == 100
NRows(T) == IF DOMAIN T = {} THEN 0 ELSE Len(T[CHOOSE c \in DOMAIN T : TRUE].cells)

(***************************************************************************)
(* DropMissing (lines 108-121).                                            *)
(***************************************************************************)
MaxRows == 2
DropColumns == {"a", "b", "c"}
\* DropMissing(threshold=...): unset (None), or a fraction, held in percent
Thresholds == {Unset} \cup {[set |-> TRUE, pct |-> t] : t \in {-10, 0, 50, 100, 120}}

\* line 114: X.isna().mean(), per column <<missing, rows>>, NaN for no rows
MissingFrac(T) ==
    [c \in DOMAIN T |->
        IF NRows(T) = 0 THEN NaN
        ELSE <<Cardinality({k \in 1..NRows(T) : T[c].cells[k] = NaN}), NRows(T)>>]

\* lines 116-117: missing > threshold, missing <= threshold (false on NaN)
AboveOrEqual(f, t) == f # NaN /\ f[1] * 100 >= t * f[2]
Above(f, t) == f # NaN /\ f[1] * 100 > t * f[2]
AtMost(f, t)  == f # NaN /\ f[1] * 100 <= t * f[2]

E_TYPE == "TypeError: '>' not supported between instances of 'float' and 'NoneType'"

\* fit, lines 113-118
DropFit ==
    /\ pc = "dm_fit"
    /\ missing_frac' = MissingFrac(X)
    /\ IF ~threshold.set
       THEN /\ pc' = "raised" /\ err' = E_TYPE
            /\ UNCHANGED <<cols_to_drop, cols_to_keep>>
       ELSE /\ cols_to_drop' = {c \in DOMAIN X : Above(missing_frac'[c], threshold.pct)}
            /\ cols_to_keep' = {c \in DOMAIN X : AtMost(missing_frac'[c], threshold.pct)}
            /\ pc' = "dm_fitted" /\ err' = err
    /\ UNCHANGED <<metricsVars, aucVars, X, threshold, X_out, winsVars, loadVars>>

\* transform, lines 120-121: X.drop(self.cols_to_drop.values, axis=1)
DropTransform ==
    /\ pc = "dm_fitted"
    /\ X_out' = [c \in (DOMAIN X) \ cols_to_drop |-> X[c]]
    /\ pc' = "dm_done"
    /\ UNCHANGED <<err, metricsVars, aucVars, X, threshold, missing_frac, cols_to_drop,
                   cols_to_keep, winsVars, loadVars>>

InitDrop ==
    /\ pc = "dm_fit" /\ err = ""
    /\ \E r \in 0..MaxRows :
          X \in [DropColumns -> {[dtype |-> "float64", cells |-> cs] :
                                   cs \in [1..r -> {NaN, <<Scale>>}]}]
    /\ threshold \in Thresholds
    /\ missing_frac = None /\ cols_to_drop = None /\ cols_to_keep = None /\ X_out = None
    /\ MetricsIdle /\ AucIdle /\ WinsIdle /\ LoadIdle

NextDrop == DropFit \/ DropTransform

SpecDrop == InitDrop /\ [][NextDrop]_vars

\* C7: for every table (zero rows included) and every numeric threshold, fit
\* splits the columns into cols_to_drop and cols_to_keep, disjoint and together
\* covering every column, and fit(X).transform(X) has exactly the cols_to_keep
\* columns and none of the cols_to_drop columns.
C7_PartitionAndExactKeep ==
    (pc \in {"dm_fitted", "dm_done"} /\ threshold.set) =>
        /\ cols_to_drop \cap cols_to_keep = {}
        /\ cols_to_drop \cup cols_to_keep = DOMAIN X
        /\ pc = "dm_done" =>
              (DOMAIN X_out = cols_to_keep /\ DOMAIN X_out \cap cols_to_drop = {})

MissingCells(c) == Cardinality({k \in 1..NRows(X) : X[c].cells[k] = NaN})

\* C7 as amended: the two sets are always disjoint and transform returns exactly
\* the columns outside cols_to_drop, unchanged; when X has at least one row the
\* sets are the columns with missing fraction > threshold and <= threshold,
\* they cover every column, and the output has exactly the cols_to_keep
\* columns; when X has no rows both sets are empty and every column is kept.
C7_PartitionWhenRowsExist ==
    (pc \in {"dm_fitted", "dm_done"} /\ threshold.set) =>
        /\ cols_to_drop \cap cols_to_keep = {}
        /\ NRows(X) >= 1 =>
              /\ cols_to_drop = {c \in DOMAIN X : MissingCells(c) * 100 > threshold.pct * NRows(X)}
              /\ cols_to_keep = {c \in DOMAIN X : MissingCells(c) * 100 <= threshold.pct * NRows(X)}
              /\ cols_to_drop \cup cols_to_keep = DOMAIN X
        /\ NRows(X) = 0 => (cols_to_drop = {} /\ cols_to_keep = {})
        /\ pc = "dm_done" =>
              /\ DOMAIN X_out = (DOMAIN X) \ cols_to_drop
              /\ \A c \in DOMAIN X_out : X_out[c] = X[c]
              /\ NRows(X) >= 1 => DOMAIN X_out = cols_to_keep

\* C7 witness: a fitted and transformed table with rows, one column dropped and
\* one kept.
C7_Witness ==
    /\ pc = "dm_done" /\ NRows(X) >= 1
    /\ cols_to_drop # {} /\ cols_to_keep # {}


(***************************************************************************)
(* Winsorizer (lines 124-163).  limits is [kind, lo, hi] in percent:       *)
(* kind "none" (unset), "float" (a single fraction, in lo) or "pair".      *)
(***************************************************************************)
MaxWRows == 3        \* rows of the table
MaxCell == 3         \* numeric cells are the whole numbers 1..MaxCell

LimitChoices ==
    {[kind |-> "none",  lo |-> 0,  hi |-> 0],
     [kind |-> "float", lo |-> 25, hi |-> 0],
     [kind |-> "pair",  lo |-> 25, hi |-> 75],
     [kind |-> "pair",  lo |-> 5,  hi |-> 95],
     [kind |-> "pair",  lo |-> 0,  hi |-> 100]}

\* lines 130-133
DefaultLow == 1
DefaultHigh == 99
NormalLimits(l) ==
    IF l.kind = "none" THEN [kind |-> "pair", lo |-> DefaultLow, hi |-> DefaultHigh]
    ELSE IF l.kind = "float" THEN [kind |-> "pair", lo |-> l.lo, hi |-> 100 - l.lo]
    ELSE l

\* pd.api.types.is_numeric_dtype
IsNumeric(dtype) == dtype \in {"int64", "float64"}

\* the non-missing cells of a column, in increasing order
RECURSIVE SortedCells(_)
SortedCells(cells) ==
    IF \A k \in 1..Len(cells) : cells[k] = NaN THEN <<>>
    ELSE LET i == CHOOSE k \in 1..Len(cells) :
                     /\ cells[k] # NaN
                     /\ \A j \in 1..Len(cells) : cells[j] # NaN => cells[k][1] <= cells[j][1]
         IN  <<cells[i]>> \o SortedCells([k \in 1..(Len(cells) - 1) |->
                                            IF k < i THEN cells[k] ELSE cells[k + 1]])

\* Series.quantile(q), q in percent: missing cells are skipped, and the value
\* is interpolated linearly between the two nearest order statistics
Quantile(cells, q) ==
    LET v    == SortedCells(cells)
        pos  == q * (Len(v) - 1)        \* 100 times the (0-based) position
        lo   == pos \div 100
        frac == pos % 100
    IN  IF Len(v) = 0 THEN NaN
        ELSE IF frac = 0 THEN v[lo + 1]
        ELSE <<v[lo + 1][1] + ((v[lo + 2][1] - v[lo + 1][1]) * frac) \div 100>>

\* lines 151-157: trim; a comparison with NaN is false
Trim(x, low, high) ==
    IF x = NaN THEN x
    ELSE LET y == IF low # NaN /\ x[1] < low[1] THEN low ELSE x
         IN  IF high # NaN /\ y[1] > high[1] THEN high ELSE y

\* numpy's conversion of a float to int64: toward zero
TruncCell(c) == <<Scale * Trunc(c[1], Scale)>>

\* lines 158 and 161: np.vectorize(trim)(column, low, high).  Without otypes,
\* numpy.vectorize takes the dtype of the whole result from trim applied to
\* the first cell: an int64 cell that trim returns as it is makes the result
\* int64, and the bounds, which are float64, are converted on the way in.
TrimColumn(col, low, high) ==
    LET out   == [k \in 1..Len(col.cells) |-> Trim(col.cells[k], low, high)]
        otype == IF col.dtype = "int64" /\ out[1] = col.cells[1] THEN "int64" ELSE "float64"
    IN  [dtype |-> otype,
         cells |-> IF otype = "int64" THEN [k \in 1..Len(out) |-> TruncCell(out[k])] ELSE out]

E_VECTORIZE == "ValueError: cannot call vectorize on size 0 inputs unless otypes is set"

\* fit, lines 128-145
WinsFit ==
    /\ pc = "w_fit"
    /\ limits' = NormalLimits(limits)
    /\ columns_' = {c \in DOMAIN X : IsNumeric(X[c].dtype)}
    /\ threshold_dict_' = [c \in columns_' |->
                             <<Quantile(X[c].cells, limits'.lo), Quantile(X[c].cells, limits'.hi)>>]
    /\ pc' = "w_fitted"
    /\ UNCHANGED <<err, metricsVars, aucVars, X, dropVars, X_t, loadVars>>

\* transform, lines 147-163
WinsTransform ==
    /\ pc = "w_fitted"
    /\ IF \E c \in DOMAIN threshold_dict_ : Len(X[c].cells) = 0
       THEN pc' = "raised" /\ err' = E_VECTORIZE /\ X_t' = X_t
       ELSE /\ X_t' = [c \in DOMAIN X |->
                         IF c \in DOMAIN threshold_dict_
                         THEN TrimColumn(X[c], threshold_dict_[c][1], threshold_dict_[c][2])
                         ELSE X[c]]
            /\ pc' = "w_done" /\ err' = err
    /\ UNCHANGED <<metricsVars, aucVars, X, dropVars, limits, columns_, threshold_dict_,
                   loadVars>>

NumericCells(dtype) ==
    {<<Scale * v>> : v \in 1..MaxCell} \cup (IF dtype = "float64" THEN {NaN} ELSE {})

InitWins ==
    /\ pc = "w_fit" /\ err = ""
    /\ \E r \in 0..MaxWRows, d \in {"int64", "float64"} :
          \E cs \in [1..r -> NumericCells(d)] :
             X = [c \in {"num", "txt"} |->
                    IF c = "num" THEN [dtype |-> d, cells |-> cs]
                    ELSE [dtype |-> "object", cells |-> [k \in 1..r |-> <<"s">>]]]
    /\ limits \in LimitChoices
    /\ columns_ = None /\ threshold_dict_ = None /\ X_t = None
    /\ MetricsIdle /\ AucIdle /\ DropIdle /\ LoadIdle

NextWins == WinsFit \/ WinsTransform

SpecWins == InitWins /\ [][NextWins]_vars

\* C6: after fit(X), transform(X) returns a table in which every non-missing
\* value of every fitted numeric column lies within that column's stored
\* [low, high], every missing entry is still missing, and every non-numeric
\* column equals the input column.
C6_ClippedWithinBounds ==
    pc = "w_done" =>
        \A c \in DOMAIN X :
            IF c \in columns_
            THEN \A k \in 1..Len(X[c].cells) :
                    IF X[c].cells[k] = NaN THEN X_t[c].cells[k] = NaN
                    ELSE /\ X_t[c].cells[k] # NaN
                         /\ threshold_dict_[c][1][1] <= X_t[c].cells[k][1]
                         /\ X_t[c].cells[k][1] <= threshold_dict_[c][2][1]
            ELSE X_t[c] = X[c]


(***************************************************************************)
(* load_model (lines 166-206).  The argument model is a sequence of        *)
(* characters; the filesystem is what the three tests of the code see:     *)
(* full_path_is (full_path a file, a directory or absent), model_is_file   *)
(* (os.path.isfile(model)), has_autogluon (the import succeeds) and        *)
(* has_best (the loaded object has best_estimator_).                       *)
(***************************************************************************)
MaxPath == 3         \* characters of the model argument

Chars == {"m", "/"}
Kinds == {"tuned", "untuned", "automl"}

\* line 177
Subdir(k) == k \o "_models"

\* line 197: model.split('/')[-1]
LastSegment(s) ==
    LET cut == {0} \cup {i \in 1..Len(s) : s[i] = "/"}
        last == CHOOSE i \in cut : \A j \in cut : j <= i
    IN  SubSeq(s, last + 1, Len(s))

\* helpers.utils.make_dir(path): the directory exists afterwards
make_dir(dirs, path) == dirs \cup {path}

\* lines 181, 184, 196, 200: the branch taken.  The mutation tests the
\* model argument before the directory.
BranchPathBeforeDir(fp, mf) ==
    IF fp = "file" THEN "file"
    ELSE IF mf THEN "path"
    ELSE IF fp = "dir" THEN "automl"
    ELSE "none"

Branch(fp, mf) ==
    IF fp = "file" THEN "file"
    ELSE IF fp = "dir" THEN "automl"
    ELSE IF mf THEN "path"
    ELSE "none"

E_IMPORT == "ImportError: Specified model appears to be an automl model."
E_MODEL == "ValueError: The 'model' argument should be a path or a recognized model name"
E_ATTR == "AttributeError: best_estimator_"

\* lines 177-201
LmResolve ==
    /\ pc = "lm_resolve"
    /\ LET b == Branch(full_path_is, model_is_file)
       IN  CASE b = "file" ->
                  /\ model_name' = model
                  /\ loaded' = [by |-> "joblib", path |-> "full_path"]
                  /\ pc' = "lm_unwrap"
                  /\ UNCHANGED <<err, dirs_made>>
             [] b = "automl" /\ ~has_autogluon ->
                  /\ pc' = "raised" /\ err' = E_IMPORT
                  /\ UNCHANGED <<model_name, loaded, dirs_made>>
             [] b = "automl" /\ has_autogluon ->
                  /\ model_name' = model
                  /\ loaded' = [by |-> "TabularPredictor", path |-> "full_path"]
                  /\ pc' = "lm_unwrap"
                  /\ UNCHANGED <<err, dirs_made>>
             [] b = "path" ->
                  /\ model_name' = LastSegment(model)
                  /\ loaded' = [by |-> "joblib", path |-> "model"]
                  /\ dirs_made' = make_dir(dirs_made, <<Subdir(kind), model_name'>>)
                  /\ pc' = "lm_unwrap"
                  /\ UNCHANGED err
             [] b = "none" ->
                  /\ pc' = "raised" /\ err' = E_MODEL
                  /\ UNCHANGED <<model_name, loaded, dirs_made>>
    /\ UNCHANGED <<metricsVars, aucVars, X, dropVars, winsVars, model, kind, full_path_is,
                   model_is_file, has_autogluon, has_best, lm_ret>>

\* lines 203-206
LmReturn ==
    /\ pc = "lm_unwrap"
    /\ IF kind = "tuned" /\ ~has_best
       THEN pc' = "raised" /\ err' = E_ATTR /\ lm_ret' = lm_ret
       ELSE /\ lm_ret' = <<model_name, IF kind = "tuned" THEN "best_estimator_" ELSE "model">>
            /\ pc' = "returned" /\ err' = err
    /\ UNCHANGED <<metricsVars, aucVars, X, dropVars, winsVars, model, kind, full_path_is,
                   model_is_file, has_autogluon, has_best, dirs_made, model_name, loaded>>

\* A path that ends in "/" names no file; full_path is model/'model' when
\* model is absolute (pathlib drops what precedes an absolute part), and
\* nothing lies below a file.
InitLoad ==
    /\ pc = "lm_resolve" /\ err = ""
    /\ \E n \in 1..MaxPath : model \in [1..n -> Chars]
    /\ kind \in Kinds
    /\ full_path_is \in {"file", "dir", "absent"}
    /\ model_is_file \in BOOLEAN
    /\ model_is_file => model[Len(model)] # "/"
    /\ (model_is_file /\ model[1] = "/") => full_path_is = "absent"
    /\ has_autogluon \in BOOLEAN /\ has_best \in BOOLEAN
    /\ dirs_made = {} /\ model_name = <<>> /\ loaded = NotLoaded /\ lm_ret = <<>>
    /\ MetricsIdle /\ AucIdle /\ X = None /\ DropIdle /\ WinsIdle

NextLoad == LmResolve \/ LmReturn

SpecLoad == InitLoad /\ [][NextLoad]_vars

\* s is the part of model after its last "/" (all of model when it has none)
IsLastSegmentOf(s, m) ==
    /\ \A j \in 1..Len(s) : s[j] # "/"
    /\ \E k \in 0..Len(m) : /\ k = 0 \/ m[k] = "/"
                            /\ Len(s) = Len(m) - k
                            /\ \A j \in 1..Len(s) : s[j] = m[k + j]

\* C8: once load_model has resolved its argument, exactly one branch has
\* acted, chosen in priority order over the filesystem state: full_path a
\* file - it is loaded, the name is model; else full_path a directory - the
\* automl predictor is loaded, or ImportError without the dependency; else
\* model an existing file - it is loaded, the name is its last "/"-separated
\* segment and <kind>_models/<name> is created; else ValueError, nothing
\* loaded and no directory created.  A call that returns, returns that name.
C8_PriorityOrder ==
    /\ pc # "lm_resolve" =>
          IF full_path_is = "file"
          THEN /\ loaded = [by |-> "joblib", path |-> "full_path"]
               /\ model_name = model /\ dirs_made = {}
               /\ err \notin {E_IMPORT, E_MODEL}
          ELSE IF full_path_is = "dir"
          THEN /\ dirs_made = {}
               /\ err # E_MODEL
               /\ IF has_autogluon
                  THEN /\ loaded = [by |-> "TabularPredictor", path |-> "full_path"]
                       /\ model_name = model /\ err # E_IMPORT
                  ELSE loaded = NotLoaded /\ pc = "raised" /\ err = E_IMPORT
          ELSE IF model_is_file
          THEN /\ loaded = [by |-> "joblib", path |-> "model"]
               /\ IsLastSegmentOf(model_name, model)
               /\ dirs_made = {<<kind \o "_models", model_name>>}
               /\ err \notin {E_IMPORT, E_MODEL}
          ELSE /\ pc = "raised" /\ err = E_MODEL
               /\ loaded = NotLoaded /\ dirs_made = {}
    /\ pc = "returned" => lm_ret[1] = model_name

\* the model argument is a path with a directory part, it names a file, and
\* the call has returned the file's last segment
C8_Witness ==
    /\ pc = "returned" /\ full_path_is = "absent" /\ model_is_file
    /\ model = <<"m", "/", "m">> /\ lm_ret[1] = <<"m">>
    /\ dirs_made # {}

=============================================================================
